---- MODULE Spec2Model ----
(***************************************************************************)
(* Retail sales ETL: the batch pipeline of etl_retail.py (pandas) and the  *)
(* streaming job of etl_streaming.py (Spark structured streaming).         *)
(*                                                                         *)
(* Conventions of the model                                                *)
(*  - a nullable cell is <<>> (null / NaN / NaT) or <<v>>;                 *)
(*  - a product name is a sequence of one-character strings ("TAB" is the  *)
(*    tab character, "e_acute"/"E_ACUTE" the accented e of 'écran');       *)
(*  - money is an integer number of cents, normalised prices an integer    *)
(*    number of thousandths;                                               *)
(*  - a DataFrame is [rows, dateTs]: its rows in order and whether the     *)
(*    Date_vente column has a datetime dtype;                              *)
(*  - the batch pipeline's frames are objects: `frames` holds the object   *)
(*    read_csv built ("loaded") and the one .copy() built ("copy"), `df`   *)
(*    is the reference the local variable df of pipeline_etl holds.        *)
(***************************************************************************)
EXTENDS Integers, Sequences, FiniteSets, TLC

VARIABLES
    \* ---- batch run (etl_retail.py)
    source,       \* the input CSV: "ok", "colonnes_manquantes" or "introuvable"
    file,         \* rows of the input CSV
    inferFormat,  \* TRUE: pd.to_datetime infers one format from the first value (pandas >= 2)
    pc,           \* next step of pipeline_etl
    frames,       \* the DataFrame objects
    df,           \* the object pipeline_etl's local df refers to
    argRef,       \* history: the object handed to the stage that ran last
    argBefore,    \* history: that object's content when the stage was called
    validated,    \* history: the content validation_croisée accepted
    sink,         \* what sauvegarde was given (<<>> while not called)
    summary,      \* the one-line summary printed by pipeline_etl
    logErr,       \* the message logged at error level
    \* ---- streaming job (etl_streaming.py)
    clock,        \* the calendar year now
    current_year, \* the value collected at line 90
    input,        \* the files that arrived in the input directory, one row each
    offset,       \* per query, how many files it has processed
    parquet,      \* rows appended to the partitioned sink
    caState,      \* the aggregation state of df_ca_annee, year -> sum
    console,      \* the last snapshot query_ca printed
    expected,     \* history: year -> sum of the rows whose year was the calendar year when processed
    lastBatch,    \* history: the micro-batch the sink query processed last
    lastAppended, \* history: the rows it appended for it
    status,       \* per query: "new", "active", "failed", "stopped"
    spc,          \* next step of the streaming driver script
    caught,       \* the query whose exception the driver caught
    reported      \* the queries whose failure the driver printed

batchVars == <<source, file, inferFormat, pc, frames, df, argRef, argBefore, validated,
               sink, summary, logErr>>
streamVars == <<clock, current_year, input, offset, parquet, caState, console,
                expected, lastBatch, lastAppended, status, spc, caught, reported>>
vars == <<batchVars, streamVars>>

-----------------------------------------------------------------------------
\* Bounds of the model
MaxRows == 3
MaxFiles == 2

-----------------------------------------------------------------------------
\* Nullable cells
Null == <<>>
Some(v) == <<v>>
IsNull(x) == x = <<>>
Val(x) == x[1]

-----------------------------------------------------------------------------
\* Strings

PyWhitespace == {" ", "TAB"}
SparkTrimChars == {" "}

UpperChars == <<"B", "C", "E", "O", "S", "V", "E_ACUTE">>
LowerChars == <<"b", "c", "e", "o", "s", "v", "e_acute">>

LowerChar(c) ==
    IF \E i \in DOMAIN UpperChars : UpperChars[i] = c
    THEN LowerChars[CHOOSE i \in DOMAIN UpperChars : UpperChars[i] = c]
    ELSE c

Lower(s) == [i \in DOMAIN s |-> LowerChar(s[i])]

RECURSIVE LStrip(_, _)
LStrip(s, ws) ==
    IF s # <<>> /\ Head(s) \in ws THEN LStrip(Tail(s), ws) ELSE s

RECURSIVE RStrip(_, _)
RStrip(s, ws) ==
    IF s # <<>> /\ s[Len(s)] \in ws THEN RStrip(SubSeq(s, 1, Len(s) - 1), ws) ELSE s

StripChars(s, ws) == RStrip(LStrip(s, ws), ws)

Contains(s, kw) ==
    \E i \in 1..(Len(s) - Len(kw) + 1) : SubSeq(s, i, i + Len(kw) - 1) = kw

KwHabillement == {<<"c","h","e","m","i","s","e">>,
                  <<"p","a","n","t","a","l","o","n">>,
                  <<"v","e","s","t","e">>}
KwElectronique == {<<"o","r","d","i","n","a","t","e","u","r">>,
                   <<"e_acute","c","r","a","n">>}

-----------------------------------------------------------------------------
\* Dates

BadDate == [fmt |-> "bad", y |-> 0, m |-> 0, d |-> 0, t |-> 0]
DateOnly(y, m, d) == [fmt |-> "date", y |-> y, m |-> m, d |-> d, t |-> 0]
DateTime(y, m, d, t) == [fmt |-> "datetime", y |-> y, m |-> m, d |-> d, t |-> t]
Timestamp(s) == [y |-> s.y, m |-> s.m, d |-> s.d, t |-> s.t]

\* pd.to_datetime(column, errors='coerce') on a column of strings.  Each value
\* is parsed on its own, or (inferFormat) against the format guessed from the
\* first non-null value, the guess failing for a value that is no date.
ToDatetime(col, infer) ==
    LET nn == SelectSeq(col, LAMBDA c : ~IsNull(c))
        guess == IF infer /\ nn # <<>> /\ Val(nn[1]).fmt # "bad"
                 THEN Some(Val(nn[1]).fmt) ELSE Null
        One(c) == IF IsNull(c) \/ Val(c).fmt = "bad" THEN Null
                  ELSE IF ~IsNull(guess) /\ Val(c).fmt # Val(guess) THEN Null
                  ELSE Some(Timestamp(Val(c)))
    IN  [i \in DOMAIN col |-> One(col[i])]

-----------------------------------------------------------------------------
\* Input rows

NomChemise == <<" ", " ", "C", "h", "e", "m", "i", "s", "e", " ", "B", "l", "e", "u", "e", " ">>
NomEcran == <<"TAB", "E_ACUTE", "c", "r", "a", "n">>
NomStylo == <<"s", "t", "y", "l", "o">>

Row(i, n, q, p, d, x) ==
    [id |-> i, name |-> n, qty |-> q, price |-> p, date |-> d, extra |-> x]

D2024 == Some(DateOnly(2024, 3, 15))
T2024 == Some(DateTime(2024, 3, 15, 0))
T2025 == Some(DateTime(2025, 1, 10, 34200))

\* the documented example row and rows that differ from it where a stage looks
Chemise == Row(Some(1), Some(NomChemise), Some(2), Some(2500), D2024, Some("x"))
RawRecords ==
    { Chemise,
      [Chemise EXCEPT !.date = T2024],
      Row(Some(2), Some(NomEcran), Some(2), Some(10000), T2024, Some("x")),
      Row(Some(3), Some(NomStylo), Some(1), Some(20002), T2025, Some("x")),
      Row(Some(4), Some(NomStylo), Some(3), Some(1000), T2024, Some("x")),
      Row(Some(5), Some(NomStylo), Some(1), Some(3000), T2024, Some("x")),
      [Chemise EXCEPT !.price = Null],
      [Chemise EXCEPT !.price = Some(0)],
      [Chemise EXCEPT !.qty = Some(0 - 1)],
      [Chemise EXCEPT !.qty = Null],
      [Chemise EXCEPT !.date = Some(BadDate)],
      [Chemise EXCEPT !.extra = Null] }

Files(S, n) == UNION {[1..k -> S] : k \in 0..n}

-----------------------------------------------------------------------------
\* etl_retail.py

Frame(rows, ts) == [rows |-> rows, dateTs |-> ts]

RECURSIVE Insert(_, _)
Insert(x, s) ==
    IF s = <<>> THEN <<x>>
    ELSE IF x <= Head(s) THEN <<x>> \o s
    ELSE <<Head(s)>> \o Insert(x, Tail(s))

RECURSIVE Sorted(_)
Sorted(s) == IF s = <<>> THEN <<>> ELSE Insert(Head(s), Sorted(Tail(s)))

\* Series.median(): NaN skipped, the middle value or the mean of the two
\* middle values, NaN when nothing is left.  (The input prices are even
\* numbers of cents, so the mean is a whole number of cents.)
Median(col) ==
    LET nn == SelectSeq(col, LAMBDA c : ~IsNull(c))
        s == Sorted([i \in DOMAIN nn |-> Val(nn[i])])
        n == Len(s)
    IN  IF n = 0 THEN Null
        ELSE IF n % 2 = 1 THEN Some(s[(n + 1) \div 2])
        ELSE Some((s[n \div 2] + s[n \div 2 + 1]) \div 2)

FillNa(c, v) == IF IsNull(c) THEN v ELSE c

Critical(r) ==
    /\ ~IsNull(r.id) /\ ~IsNull(r.name) /\ ~IsNull(r.qty)
    /\ ~IsNull(r.price) /\ ~IsNull(r.date)

\* traitement_valeurs_manquantes: the content its argument has afterwards
\* (the function works in place and returns its argument)
traitement_valeurs_manquantes(f) ==
    LET kept == SelectSeq(f.rows, Critical)
        med == Median([i \in DOMAIN kept |-> kept[i].price])
        Fill(r) == [r EXCEPT !.qty = FillNa(r.qty, Some(0)),
                             !.price = FillNa(r.price, med)]
    IN  Frame([i \in DOMAIN kept |-> Fill(kept[i])], f.dateTs)

Gt0(c) == ~IsNull(c) /\ Val(c) > 0

\* (mutant: the price test lets a zero price through)
FiltreAberrantesPrixNul(r) == Gt0(r.qty) /\ ~IsNull(r.price) /\ Val(r.price) >= 0

\* line 59: the rows the boolean mask keeps
FiltreAberrantes(r) == Gt0(r.qty) /\ Gt0(r.price)

\* (mutant: the mask is applied to the caller's object)
CibleAberrantesEnPlace(d) == d

\* line 59: df[mask].copy() is a new object, which the local df then names
CibleAberrantes(d) == "copy"

\* gestion_valeurs_aberrantes: the content of the copy it returns
gestion_valeurs_aberrantes(f, infer) ==
    LET kept == SelectSeq(f.rows, FiltreAberrantes)
        ts == ToDatetime([i \in DOMAIN kept |-> kept[i].date], infer)
        conv == [i \in DOMAIN kept |-> [kept[i] EXCEPT !.date = ts[i]]]
    IN  Frame(SelectSeq(conv, LAMBDA r : ~IsNull(r.date)), TRUE)

\* (mutant: keep='last')
suppression_doublons_last(f) ==
    LET rows == f.rows
        Keep(i) == \A j \in (i + 1)..Len(rows) : rows[j] # rows[i]
        idx == {i \in DOMAIN rows : Keep(i)}
        Nth(k) == CHOOSE i \in idx : Cardinality({j \in idx : j <= i}) = k
    IN  Frame([k \in 1..Cardinality(idx) |-> rows[Nth(k)]], f.dateTs)

\* DataFrame.drop_duplicates(): keep='first'
RECURSIVE DropDuplicates(_, _)
DropDuplicates(rows, seen) ==
    IF rows = <<>> THEN <<>>
    ELSE IF Head(rows) \in seen THEN DropDuplicates(Tail(rows), seen)
    ELSE <<Head(rows)>> \o DropDuplicates(Tail(rows), seen \cup {Head(rows)})

\* suppression_doublons: the content its argument has afterwards (in place)
suppression_doublons(f) == Frame(DropDuplicates(f.rows, {}), f.dateTs)

\* numpy round: to the nearest integer, a tie to the even one (n >= 0, d > 0)
RoundHalfEven(n, d) ==
    LET q == n \div d
        r == n % d
    IN  IF 2 * r < d THEN q
        ELSE IF 2 * r > d THEN q + 1
        ELSE IF q % 2 = 0 THEN q ELSE q + 1

SetMin(S) == CHOOSE x \in S : \A y \in S : x <= y
SetMax(S) == CHOOSE x \in S : \A y \in S : x >= y

\* (mutant: the third decimal is cut, not rounded)
PrixNormaliseTronque(p, prices) ==
    LET lo == SetMin(prices)
        hi == SetMax(prices)
    IN  (1000 * (p - lo)) \div (IF hi = lo THEN 1 ELSE hi - lo)

\* MinMaxScaler().fit_transform(column).round(3), in thousandths: the scale is
\* 1 / (max - min), with a zero range replaced by 1
PrixNormalise(p, prices) ==
    LET lo == SetMin(prices)
        hi == SetMax(prices)
        range == IF hi = lo THEN 1 ELSE hi - lo
    IN  RoundHalfEven(1000 * (p - lo), range)

\* (mutant: the bins are closed on the left)
CategorieMontantGauche(t) ==
    IF t >= (0 - 1) * 100 /\ t < 50 * 100 THEN Some("faible")
    ELSE IF t >= 50 * 100 /\ t < 200 * 100 THEN Some("moyen")
    ELSE IF t >= 200 * 100 THEN Some("eleve")
    ELSE Null

\* pd.cut(Montant_total, bins=[-1, 50, 200, inf]): intervals closed on the right
CategorieMontant(t) ==
    IF t > (0 - 1) * 100 /\ t <= 50 * 100 THEN Some("faible")
    ELSE IF t > 50 * 100 /\ t <= 200 * 100 THEN Some("moyen")
    ELSE IF t > 200 * 100 THEN Some("eleve")
    ELSE Null

categorie_produit(nom) ==
    IF \E x \in KwHabillement : Contains(nom, x) THEN "habillement"
    ELSE IF \E x \in KwElectronique : Contains(nom, x) THEN "electronique"
    ELSE "autre"

\* str.strip().str.lower()
NettoieNom(n) == Lower(StripChars(n, PyWhitespace))

EnrichRow(r, prices) ==
    LET total == Val(r.qty) * Val(r.price)
        nom == NettoieNom(Val(r.name))
    IN  [r EXCEPT !.name = Some(nom)] @@
        [total |-> Some(total),
         norm |-> Some(PrixNormalise(Val(r.price), prices)),
         mois |-> Some(Val(r.date).m),
         annee |-> Some(Val(r.date).y),
         catMontant |-> CategorieMontant(total),
         catProduit |-> Some(categorie_produit(nom))]

\* transformations: the content its argument has afterwards (in place);
\* MinMaxScaler rejects a column of no rows
TransformationsErreur(f) ==
    IF f.rows = <<>> THEN "Found array with 0 sample(s)" ELSE "ok"

transformations(f) ==
    LET prices == {Val(f.rows[i].price) : i \in DOMAIN f.rows}
    IN  Frame([i \in DOMAIN f.rows |-> EnrichRow(f.rows[i], prices)], f.dateTs)

HasNull(r) == \E k \in DOMAIN r : IsNull(r[k])

\* (mutant: the null check is missing)
ValidationSansNuls(f) ==
    IF ~(\A i \in DOMAIN f.rows : Gt0(f.rows[i].qty))
    THEN "Des quantites invalides."
    ELSE IF ~f.dateTs THEN "Dates mal converties."
    ELSE "ok"

\* validation_croisée: the message of the first assertion that fails
validation_croisee(f) ==
    IF \E i \in DOMAIN f.rows : HasNull(f.rows[i])
    THEN "Des valeurs manquantes subsistent."
    ELSE IF ~(\A i \in DOMAIN f.rows : Gt0(f.rows[i].qty))
    THEN "Des quantites invalides."
    ELSE IF ~f.dateTs THEN "Dates mal converties."
    ELSE "ok"

NoFrame == Frame(<<>>, FALSE)

Queries == {"query", "query_ca"}
Years == 2024..2025

\* the streaming job before the script runs
StreamIdle ==
    /\ clock = 2024 /\ current_year = Null /\ input = <<>>
    /\ offset = [q \in Queries |-> 0]
    /\ parquet = <<>> /\ caState = <<>> /\ console = <<>> /\ expected = <<>>
    /\ lastBatch = <<>> /\ lastAppended = <<>>
    /\ status = [q \in Queries |-> "new"]
    /\ spc = "collect" /\ caught = Null /\ reported = {}

\* the batch pipeline before pipeline_etl is called on `f`
BatchIdle(src, f, infer) ==
    /\ source = src /\ file = f /\ inferFormat = infer
    /\ pc = "charger"
    /\ frames = [loaded |-> NoFrame, copy |-> NoFrame]
    /\ df = "none" /\ argRef = "none" /\ argBefore = NoFrame
    /\ validated = Null /\ sink = Null
    /\ summary = "none" /\ logErr = "none"

Sources == {"ok", "colonnes_manquantes", "introuvable"}

InitBatch ==
    \E src \in Sources, f \in Files(RawRecords, MaxRows), infer \in BOOLEAN :
        /\ src # "ok" => (f = <<>> /\ ~infer)
        /\ BatchIdle(src, f, infer)
        /\ StreamIdle

\* the except clause of pipeline_etl
Echec(msg) ==
    /\ pc' = "done" /\ summary' = "failure" /\ logErr' = msg

\* charger_donnees: the exception it re-raises, if any
charger_donnees(src) ==
    IF src = "introuvable" THEN "FileNotFoundError"
    ELSE IF src = "colonnes_manquantes" THEN "Colonnes manquantes dans le fichier CSV."
    ELSE "ok"

\* df = charger_donnees(fichier_entree); analyse_donnees(df) only prints
Charger ==
    /\ pc = "charger"
    /\ IF charger_donnees(source) = "ok"
       THEN /\ frames' = [frames EXCEPT !.loaded = Frame(file, FALSE)]
            /\ df' = "loaded"
            /\ pc' = "manquantes"
            /\ UNCHANGED <<summary, logErr>>
       ELSE /\ Echec(charger_donnees(source))
            /\ UNCHANGED <<frames, df>>
    /\ UNCHANGED <<source, file, inferFormat, argRef, argBefore, validated, sink>>
    /\ UNCHANGED streamVars

Manquantes ==
    /\ pc = "manquantes"
    /\ argRef' = df /\ argBefore' = frames[df]
    /\ frames' = [frames EXCEPT ![df] = traitement_valeurs_manquantes(frames[df])]
    /\ pc' = "aberrantes"
    /\ UNCHANGED <<source, file, inferFormat, df, validated, sink, summary, logErr>>
    /\ UNCHANGED streamVars

Aberrantes ==
    /\ pc = "aberrantes"
    /\ argRef' = df /\ argBefore' = frames[df]
    /\ frames' = [frames EXCEPT ![CibleAberrantes(df)] =
                                  gestion_valeurs_aberrantes(frames[df], inferFormat)]
    /\ df' = CibleAberrantes(df)
    /\ pc' = "doublons"
    /\ UNCHANGED <<source, file, inferFormat, validated, sink, summary, logErr>>
    /\ UNCHANGED streamVars

Doublons ==
    /\ pc = "doublons"
    /\ argRef' = df /\ argBefore' = frames[df]
    /\ frames' = [frames EXCEPT ![df] = suppression_doublons(frames[df])]
    /\ pc' = "transformations"
    /\ UNCHANGED <<source, file, inferFormat, df, validated, sink, summary, logErr>>
    /\ UNCHANGED streamVars

Transformer ==
    /\ pc = "transformations"
    /\ argRef' = df /\ argBefore' = frames[df]
    /\ IF TransformationsErreur(frames[df]) = "ok"
       THEN /\ frames' = [frames EXCEPT ![df] = transformations(frames[df])]
            /\ pc' = "validation"
            /\ UNCHANGED <<summary, logErr>>
       ELSE /\ Echec(TransformationsErreur(frames[df]))
            /\ UNCHANGED frames
    /\ UNCHANGED <<source, file, inferFormat, df, validated, sink>>
    /\ UNCHANGED streamVars

Valider ==
    /\ pc = "validation"
    /\ IF validation_croisee(frames[df]) = "ok"
       THEN /\ validated' = Some(frames[df].rows)
            /\ pc' = "sauvegarde"
            /\ UNCHANGED <<summary, logErr>>
       ELSE /\ Echec(validation_croisee(frames[df]))
            /\ UNCHANGED validated
    /\ UNCHANGED <<source, file, inferFormat, frames, df, argRef, argBefore, sink>>
    /\ UNCHANGED streamVars

\* sauvegarde(df, fichier_sortie) and the success summary
Sauvegarder ==
    /\ pc = "sauvegarde"
    /\ sink' = Some(frames[df].rows)
    /\ summary' = "success"
    /\ pc' = "done"
    /\ UNCHANGED <<source, file, inferFormat, frames, df, argRef, argBefore, validated, logErr>>
    /\ UNCHANGED streamVars

NextBatch ==
    \/ Charger \/ Manquantes \/ Aberrantes \/ Doublons
    \/ Transformer \/ Valider \/ Sauvegarder

SpecBatch == InitBatch /\ [][NextBatch]_vars

\* lines 136-139 of pipeline_etl applied to a set of raw rows: the rows that
\* reach validation (none when transformations raises)
Etapes3a6(rows, infer) ==
    LET f == suppression_doublons(
                 gestion_valeurs_aberrantes(
                     traitement_valeurs_manquantes(Frame(rows, FALSE)), infer))
    IN  IF TransformationsErreur(f) = "ok" THEN transformations(f).rows ELSE <<>>

-----------------------------------------------------------------------------
\* etl_streaming.py
\* (the model takes the two Windows path literals as valid paths and line 90
\* as yielding the calendar year at the time the script runs it)

StreamRecords ==
    { Chemise,
      [Chemise EXCEPT !.date = T2024],
      Row(Some(3), Some(NomStylo), Some(1), Some(20002), T2025, Some("x")),
      Row(Some(2), Some(NomEcran), Some(2), Some(10000), T2024, Some("x")),
      [Chemise EXCEPT !.date = T2024, !.name = Null],
      [Chemise EXCEPT !.date = T2024, !.qty = Some(0 - 1)] }

\* to_timestamp(Date_vente, "yyyy-MM-dd HH:mm:ss"): null unless the text has that form
ToTimestamp(c) ==
    IF IsNull(c) \/ Val(c).fmt # "datetime" THEN Null ELSE Some(Timestamp(Val(c)))

\* the filter of lines 49-53; a comparison with null is null, which filter drops
FiltreStream(r) == Gt0(r.qty) /\ Gt0(r.price) /\ ~IsNull(r.date)

\* trim(lower(Nom_produit))
NettoieNomStream(c) ==
    IF IsNull(c) THEN Null ELSE Some(StripChars(Lower(Val(c)), SparkTrimChars))

\* when(<= 50).when(> 50 & <= 200).otherwise()
CategorieMontantStream(t) ==
    IF t <= 50 * 100 THEN Some("faible")
    ELSE IF t > 50 * 100 /\ t <= 200 * 100 THEN Some("moyen")
    ELSE Some("eleve")

\* when(rlike).when(rlike).otherwise(): a null name satisfies neither when
CategorieProduitStream(c) ==
    IF ~IsNull(c) /\ \E x \in KwHabillement : Contains(Val(c), x) THEN "habillement"
    ELSE IF ~IsNull(c) /\ \E x \in KwElectronique : Contains(Val(c), x) THEN "electronique"
    ELSE "autre"

\* the columns of lines 56-79 for a row that passed the filter
EnrichStream(r) ==
    LET nom == NettoieNomStream(r.name)
        total == Val(r.qty) * Val(r.price)
    IN  [id |-> r.id, name |-> nom, qty |-> r.qty, price |-> r.price, date |-> r.date,
         total |-> Some(total),
         mois |-> Some(Val(r.date).m),
         annee |-> Some(Val(r.date).y),
         catMontant |-> CategorieMontantStream(total),
         catProduit |-> Some(CategorieProduitStream(nom))]

\* df_clean over one micro-batch of rows read with the five-column schema
df_clean(mb) ==
    LET conv == [i \in DOMAIN mb |-> [mb[i] EXCEPT !.date = ToTimestamp(mb[i].date)]]
        kept == SelectSeq(conv, FiltreStream)
    IN  [i \in DOMAIN kept |-> EnrichStream(kept[i])]

\* groupBy(Annee_vente).agg(sum(Montant_total)) folded into the running state
RECURSIVE Agg(_, _)
Agg(state, rows) ==
    IF rows = <<>> THEN state
    ELSE LET y == Val(Head(rows).annee)
             v == Val(Head(rows).total)
             st == [k \in DOMAIN state \cup {y} |->
                      (IF k \in DOMAIN state THEN state[k] ELSE 0) + (IF k = y THEN v ELSE 0)]
         IN  Agg(st, Tail(rows))

\* df_ca_annee's input rows: df_clean filtered on the collected year
FiltreAnnee(rows, year) == SelectSeq(rows, LAMBDA r : r.annee = year)

InitStream ==
    /\ BatchIdle("ok", <<>>, FALSE)
    /\ StreamIdle

\* line 90
Collect ==
    /\ spc = "collect"
    /\ current_year' = Some(clock)
    /\ spc' = "start_query"
    /\ UNCHANGED <<clock, input, offset, parquet, caState, console, expected,
                   lastBatch, lastAppended, status, caught, reported>>
    /\ UNCHANGED batchVars

\* lines 102-108
StartQuery ==
    /\ spc = "start_query"
    /\ status' = [status EXCEPT !["query"] = "active"]
    /\ spc' = "start_ca"
    /\ UNCHANGED <<clock, current_year, input, offset, parquet, caState, console,
                   expected, lastBatch, lastAppended, caught, reported>>
    /\ UNCHANGED batchVars

\* lines 111-114
StartQueryCa ==
    /\ spc = "start_ca"
    /\ status' = [status EXCEPT !["query_ca"] = "active"]
    /\ spc' = "await"
    /\ UNCHANGED <<clock, current_year, input, offset, parquet, caState, console,
                   expected, lastBatch, lastAppended, caught, reported>>
    /\ UNCHANGED batchVars

\* lines 121-122: query.awaitTermination() blocks while query is active and
\* raises when it failed; query_ca is awaited once query has stopped
Await ==
    /\ spc = "await"
    /\ LET q == IF status["query"] = "stopped" THEN "query_ca" ELSE "query"
       IN  /\ status[q] = "failed"
           /\ caught' = Some(q)
    /\ spc' = "except"
    /\ UNCHANGED <<clock, current_year, input, offset, parquet, caState, console,
                   expected, lastBatch, lastAppended, status, reported>>
    /\ UNCHANGED batchVars

\* lines 123-125: print the error, then spark.stop() stops every active query
Except ==
    /\ spc = "except"
    /\ reported' = reported \cup {Val(caught)}
    /\ status' = [q \in Queries |-> IF status[q] = "active" THEN "stopped" ELSE status[q]]
    /\ spc' = "done"
    /\ UNCHANGED <<clock, current_year, input, offset, parquet, caState, console,
                   expected, lastBatch, lastAppended, caught>>
    /\ UNCHANGED batchVars

\* a new CSV file lands in the input directory
FileArrives ==
    /\ Len(input) < MaxFiles
    /\ \E r \in StreamRecords : input' = Append(input, r)
    /\ UNCHANGED <<clock, current_year, offset, parquet, caState, console, expected,
                   lastBatch, lastAppended, status, spc, caught, reported>>
    /\ UNCHANGED batchVars

\* the calendar year changes
NewYear ==
    /\ clock + 1 \in Years
    /\ clock' = clock + 1
    /\ UNCHANGED <<current_year, input, offset, parquet, caState, console, expected,
                   lastBatch, lastAppended, status, spc, caught, reported>>
    /\ UNCHANGED batchVars

\* a running query fails (an I/O error, a lost executor)
QueryFails ==
    /\ \E q \in Queries :
          /\ status[q] = "active"
          /\ status' = [status EXCEPT ![q] = "failed"]
    /\ UNCHANGED <<clock, current_year, input, offset, parquet, caState, console,
                   expected, lastBatch, lastAppended, spc, caught, reported>>
    /\ UNCHANGED batchVars

\* query: one micro-batch, the files not yet processed, appended to the sink
SinkBatch ==
    /\ status["query"] = "active"
    /\ offset["query"] < Len(input)
    /\ LET mb == SubSeq(input, offset["query"] + 1, Len(input))
       IN  /\ parquet' = parquet \o df_clean(mb)
           /\ lastBatch' = mb
           /\ lastAppended' = df_clean(mb)
    /\ offset' = [offset EXCEPT !["query"] = Len(input)]
    /\ UNCHANGED <<clock, current_year, input, caState, console, expected,
                   status, spc, caught, reported>>
    /\ UNCHANGED batchVars

\* query_ca: one micro-batch folded into the state, the whole state printed
CaBatch ==
    /\ status["query_ca"] = "active"
    /\ offset["query_ca"] < Len(input)
    /\ LET mb == SubSeq(input, offset["query_ca"] + 1, Len(input))
           st == Agg(caState, FiltreAnnee(df_clean(mb), current_year))
       IN  /\ caState' = st
           /\ console' = st
           /\ expected' = Agg(expected, FiltreAnnee(df_clean(mb), Some(clock)))
    /\ offset' = [offset EXCEPT !["query_ca"] = Len(input)]
    /\ UNCHANGED <<clock, current_year, input, parquet, lastBatch, lastAppended,
                   status, spc, caught, reported>>
    /\ UNCHANGED batchVars

NextStream ==
    \/ Collect \/ StartQuery \/ StartQueryCa \/ Await \/ Except
    \/ FileArrives \/ NewYear \/ QueryFails \/ SinkBatch \/ CaBatch

SpecStream == InitStream /\ [][NextStream]_vars

-----------------------------------------------------------------------------
\* Properties of the batch pipeline (SpecBatch)

\* the rows of the current frame that carry the derived columns
Enrichies ==
    IF df = "none" THEN <<>>
    ELSE SelectSeq(frames[df].rows, LAMBDA r : "total" \in DOMAIN r)

\* C1: every record pipeline_etl hands to the sink has quantity_sold > 0,
\* unit_price > 0 and total_amount = quantity_sold * unit_price.
C1_SinkRecordsPositive ==
    ~IsNull(sink) =>
        \A i \in DOMAIN Val(sink) :
            LET r == Val(sink)[i]
            IN  /\ r.qty # <<>> /\ r.qty[1] > 0
                /\ r.price # <<>> /\ r.price[1] > 0
                /\ r.total = <<r.qty[1] * r.price[1]>>

\* C1 witness: a run that wrote two or more records although the file held a
\* row with a non-positive quantity or price.
C1_Witness ==
    /\ ~IsNull(sink) /\ Len(Val(sink)) >= 2
    /\ \E i \in DOMAIN file :
          /\ file[i].qty # <<>> /\ file[i].price # <<>>
          /\ (file[i].qty[1] <= 0 \/ file[i].price[1] <= 0)

\* a frame the Validator must refuse: a null cell, a quantity <= 0 or a
\* Date_vente column that is no timestamp column
Refusable(f) ==
    \/ \E i \in DOMAIN f.rows : \E k \in DOMAIN f.rows[i] : f.rows[i][k] = <<>>
    \/ \E i \in DOMAIN f.rows : f.rows[i].qty # <<>> /\ f.rows[i].qty[1] <= 0
    \/ ~f.dateTs

\* C2: the Validator is a hard gate.  Once validation has run on a frame it
\* must refuse, the run has ended with the failure summary and the sink was
\* never called; and what the sink is given is exactly the validated frame,
\* with as many records as entered validation.
C2_ValidatorGate ==
    /\ (pc \in {"sauvegarde", "done"} /\ df # "none" /\ Refusable(frames[df])) =>
           (pc = "done" /\ summary = "failure" /\ IsNull(sink))
    /\ summary = "failure" => IsNull(sink)
    /\ ~IsNull(sink) =>
           /\ summary = "success"
           /\ sink = validated
           /\ Val(sink) = frames[df].rows
           /\ Len(Val(sink)) = Len(argBefore.rows)
           /\ ~Refusable(frames[df])

\* C2 witness: the run was aborted by the Validator's null check on an
\* enriched frame, and nothing was written.
C2_Witness ==
    /\ pc = "done" /\ summary = "failure" /\ IsNull(sink)
    /\ logErr = "Des valeurs manquantes subsistent."
    /\ Len(Enrichies) >= 2

\* C3: amount_category is "faible" (low) up to 50.00, "moyen" (medium) above
\* 50.00 up to 200.00 and "eleve" (high) above 200.00, and the streaming
\* expression gives the same label for the same total.
C3_AmountCategory ==
    \A i \in DOMAIN Enrichies :
        LET r == Enrichies[i]
            t == r.total[1]
        IN  /\ (t <= 5000) => r.catMontant = <<"faible">>
            /\ (t > 5000 /\ t <= 20000) => r.catMontant = <<"moyen">>
            /\ (t > 20000) => r.catMontant = <<"eleve">>
            /\ CategorieMontantStream(t) = r.catMontant

\* C3 witness: an enriched frame with totals of exactly 50.00, exactly 200.00
\* and 200.02.
C3_Witness ==
    /\ \E i \in DOMAIN Enrichies : Enrichies[i].total = <<5000>>
    /\ \E i \in DOMAIN Enrichies : Enrichies[i].total = <<20000>>
    /\ \E i \in DOMAIN Enrichies : Enrichies[i].total = <<20002>>

\* C4: a record whose only missing critical field is unit_price leaves the
\* Missing-Value Handler with the median of the other prices and is present
\* when the Outlier Filter runs.
C4_MedianImputed ==
    pc = "aberrantes" =>
        LET before == argBefore.rows
            others == SelectSeq(before, LAMBDA r : r.id # <<>> /\ r.name # <<>>
                                             /\ r.qty # <<>> /\ r.date # <<>>)
            med == Median([i \in DOMAIN others |-> others[i].price])
        IN  \A i \in DOMAIN others :
                (others[i].price = <<>> /\ med # <<>>) =>
                    \E j \in DOMAIN frames[df].rows :
                        frames[df].rows[j] = [others[i] EXCEPT !.price = med]

\* C5: the Deduplicator's output is its input without the records equal to an
\* earlier one, first occurrences in their original order, and deduplicating
\* the output again changes nothing.
C5_Dedup ==
    pc = "transformations" =>
        LET in == argBefore.rows
            out == frames[df].rows
            first == {i \in DOMAIN in : \A j \in 1..(i - 1) : in[j] # in[i]}
        IN  /\ Len(out) = Cardinality(first)
            /\ \A i \in first : out[Cardinality({j \in first : j <= i})] = in[i]
            /\ suppression_doublons(frames[df]) = frames[df]

\* C5 witness: the Deduplicator removed the third record, a duplicate of the
\* first, and kept a different second record.
C5_Witness ==
    /\ pc = "transformations"
    /\ Len(argBefore.rows) = 3 /\ Len(frames[df].rows) = 2
    /\ argBefore.rows[3] = argBefore.rows[1]
    /\ argBefore.rows[2] # argBefore.rows[1]

\* C6: normalized_price is (unit_price - min) / (max - min) over the whole
\* frame rounded to 3 decimals (a nearest multiple of 0.001) and lies in
\* [0, 1]; when all prices are equal it is still a value in [0, 1].
C6_NormalizedPrice ==
    LET prices == {Enrichies[i].price[1] : i \in DOMAIN Enrichies}
    IN  \A i \in DOMAIN Enrichies :
            LET r == Enrichies[i]
                lo == CHOOSE x \in prices : \A y \in prices : x <= y
                hi == CHOOSE x \in prices : \A y \in prices : x >= y
                n == r.norm[1]
                e == n * (hi - lo) - 1000 * (r.price[1] - lo)
            IN  /\ r.norm # <<>>
                /\ n >= 0 /\ n <= 1000
                /\ hi > lo => (2 * e <= hi - lo /\ 2 * (0 - e) <= hi - lo)

\* C6 witness: a frame of three prices whose middle one normalises to a value
\* that had to be rounded.
C6_Witness ==
    \E i \in DOMAIN Enrichies :
        LET prices == {Enrichies[k].price[1] : k \in DOMAIN Enrichies}
            lo == CHOOSE x \in prices : \A y \in prices : x <= y
            hi == CHOOSE x \in prices : \A y \in prices : x >= y
            n == Enrichies[i].norm[1]
        IN  /\ n > 0 /\ n < 1000
            /\ n * (hi - lo) # 1000 * (Enrichies[i].price[1] - lo)

\* C10 as claimed: every stage leaves the record set it was given unchanged.
C10_StagesPure ==
    argRef # "none" => frames[argRef] = argBefore

\* C10 as amended: the Outlier Filter returns a new record set and leaves its
\* input unchanged; the Missing-Value Handler, the Deduplicator and the
\* Enricher return the very object they were given, which then holds the
\* stage's result.
C10_InPlaceExceptFilter ==
    /\ pc = "doublons" => (df # argRef /\ frames[argRef] = argBefore)
    /\ pc = "aberrantes" =>
           /\ df = argRef
           /\ \A i \in DOMAIN frames[argRef].rows :
                  \A k \in {"id", "name", "qty", "price", "date"} :
                      frames[argRef].rows[i][k] # <<>>
    /\ pc = "transformations" =>
           /\ df = argRef
           /\ \A i, j \in DOMAIN frames[argRef].rows :
                  frames[argRef].rows[i] = frames[argRef].rows[j] => i = j
    /\ pc = "validation" =>
           /\ df = argRef
           /\ \A i \in DOMAIN frames[argRef].rows : "total" \in DOMAIN frames[argRef].rows[i]

\* C10 witness: the Outlier Filter dropped a record and its input still has it.
C10_Witness ==
    /\ pc = "doublons"
    /\ Len(frames[df].rows) < Len(frames[argRef].rows)
    /\ frames[argRef] = argBefore

-----------------------------------------------------------------------------
\* Properties of the streaming job (SpecStream)

\* C7: what the streaming job appends for a micro-batch is what the batch
\* Missing-Value Handler, Outlier Filter, Deduplicator and Enricher give for
\* it: the same records, with the same columns and values (the batch file's
\* extra columns aside).
C7_StreamEqualsBatch ==
    \E infer \in BOOLEAN :
        LET b == Etapes3a6(lastBatch, infer)
        IN  /\ Len(lastAppended) = Len(b)
            /\ \A i \in DOMAIN b :
                   \A k \in DOMAIN b[i] \ {"extra"} :
                       /\ k \in DOMAIN lastAppended[i]
                       /\ lastAppended[i][k] = b[i][k]

\* C8: a failure of either query is reported by the driver, and no query is
\* stopped because the other one failed.
C8_QueriesIndependent ==
    /\ spc = "done" => \A q \in Queries : status[q] = "failed" => q \in reported
    /\ \A q \in Queries :
           status[q] = "stopped" => \A r \in Queries : status[r] # "failed"

\* C9: the snapshot printed by the aggregate query is the running sum, by
\* year, of the total_amount of the records processed so far whose year was
\* the calendar year at the time they were processed.
C9_SnapshotCurrentYear ==
    console = expected

====
